---- MODULE Spec2Model ----
(***************************************************************************)
(* Request-lifecycle engine of avante-curl: the RequestManager behind one  *)
(* Session (crates/avante-curl/src/session.rs), driven through its public  *)
(* operations by the launching thread, the executor and the polling host.  *)
(* Time is the wall clock in whole seconds, as timestamp_now() returns it. *)
(***************************************************************************)
EXTENDS Integers, Sequences, FiniteSets, TLC

(* ------------------------------ bounds -------------------------------- *)

\* longest accumulated body, in characters
MaxBodyLen == 11

(* ------------------------- program constants --------------------------- *)

\* RequestManager::new: idle_timeout
idle_timeout == 3600
\* RequestManager::new: cleanup_interval
cleanup_interval == 300
\* poll_request: seconds without update after which a poll reports a timeout
PollTimeout == 30

(* ------------------------------ inputs -------------------------------- *)

Ids == {"r1"}
\* the instants at which the session is called: 301 s and 3601 s apart, one
\* step beyond the thresholds of the manager (30 s, 300 s, 3600 s)
Times == {0, 301, 3902}
Statuses == {200}
HeaderMaps == {[k \in {"content-type"} |-> "text/plain"]}
Bodies == {"", "hello"}
Chunks == {"hello", " world"}
Errors == {"boom"}
HandlerSets == {[on_chunk |-> TRUE, on_complete |-> TRUE, on_error |-> TRUE],
                [on_chunk |-> FALSE, on_complete |-> FALSE, on_error |-> FALSE]}

(* --------------------------- Option<T> -------------------------------- *)

None == <<>>
Some(v) == <<v>>
IsSome(o) == Len(o) = 1
Unwrap(o) == o[1]

(* ------------------------------ state --------------------------------- *)

VARIABLES
  clock,          \* the wall clock, seconds
  requests,       \* RequestManager.requests: id -> RequestInfo
  callbacks,      \* RequestManager.callbacks: id -> CallbackHandlers
  cancellations,  \* RequestManager.cancellations: id -> the flag registered for it
  last_cleanup,   \* RequestManager.last_cleanup
  win,            \* per id, the chunks delivered since its body was last set
  lastOp,         \* the most recent call on the session and what it returned
  host,           \* the scripted host of HostSpec: its position and when it began
  task,           \* per id, where the task spawned by request() stands
  poller,         \* a poll in progress: its position and the time it sampled
  sessions,       \* SESSIONS: the session the maps above belong to, and the
                  \* managers of the other sessions
  sse,            \* the stream executor: the bytes it reads, its buffer and
                  \* the events it delivered
  sweep,          \* per polling thread, where its poll_request stands inside
                  \* try_cleanup and cleanup_idle_requests
  thread,         \* per thread, the call it is in and where it stands in it
  lock            \* who holds the record's guard, references into the
                  \* callbacks map and the handlers' mutexes

vars == <<clock, requests, callbacks, cancellations,
          last_cleanup, win, lastOp, host, task, poller, sessions, sse, sweep, thread, lock>>

(* --------------------------- RequestState ------------------------------ *)

RequestState == {"Init", "Sending", "Receiving", "Complete", "Error",
                 "Timeout", "Cancelled", "Idle", "Acknowledged"}
ActiveStates == {"Init", "Sending", "Receiving"}
TerminalStates == {"Complete", "Error", "Timeout", "Cancelled"}

(* ----------------------------- helpers -------------------------------- *)

EmptyMap == [x \in {} |-> x]
Put(f, k, v) == [x \in DOMAIN f \cup {k} |-> IF x = k THEN v ELSE f[x]]
Without(f, S) == [x \in DOMAIN f \ S |-> f[x]]

\* RequestManager::timestamp_now
timestamp_now == clock

\* the u64 test `now - then > limit`. When then is later than now the
\* subtraction overflows: a build without overflow checks wraps it to
\* 2^64 - (then - now), which is above every limit the manager uses (a build
\* with overflow checks panics instead, see Overflows)
Exceeds(now, then, limit) == IF now >= then THEN now - then > limit ELSE TRUE

\* whether the u64 subtraction `now - then` overflows
Overflows(now, then) == now < then

\* what a call returned: ok is the bool / Ok-Err result, snap the snapshot a
\* poll returned, calls the handlers it invoked, at the time the call sampled,
\* was the record's state when the call started
Ret(op, id, ok, snap, calls) ==
  [op |-> op, id |-> id, ok |-> ok, at |-> timestamp_now,
   was |-> IF id \in DOMAIN requests THEN requests[id].state ELSE "absent",
   snap |-> snap, calls |-> calls]

Call(h, text, info) == [h |-> h, text |-> text, info |-> info]

\* the window of chunks delivered to an id since its body was last set,
\* cleared or its handlers replaced
NoWindow == [base |-> None, chunks |-> << >>, calls |-> << >>]
WindowFrom(body) == [base |-> body, chunks |-> << >>, calls |-> << >>]

(* ------------------------- RequestManager ------------------------------ *)

\* mutant: the poll time of a new record is left at zero
NewRecordStale(id, now) ==
  [request_id |-> id, state |-> "Init", status |-> None, headers |-> None,
   body |-> None, error |-> None,
   last_polled |-> 0, created_at |-> now, updated_at |-> now]

\* init_request, the record of a new request
NewRecord(id, now) ==
  [request_id |-> id, state |-> "Init", status |-> None, headers |-> None,
   body |-> None, error |-> None,
   last_polled |-> now, created_at |-> now, updated_at |-> now]

\* mutant: a record that is still receiving is reset too
CanResetLoose(st) ==
  st \in {"Complete", "Error", "Timeout", "Cancelled", "Idle", "Receiving"}

\* mutant: an acknowledged record is reset too
CanResetAcknowledged(st) ==
  st \in {"Complete", "Error", "Timeout", "Cancelled", "Idle", "Acknowledged"}

\* init_request, the states from which an existing record is reset
CanReset(st) == st \in {"Complete", "Error", "Timeout", "Cancelled", "Idle"}

\* init_request, the reset of an existing record
ResetRecord(req, now) ==
  [req EXCEPT !.state = "Init", !.status = None, !.headers = None,
              !.body = None, !.error = None,
              !.last_polled = now, !.updated_at = now]

\* init_request, the flag allocated by Arc::new(AtomicBool::new(false)): arc
\* tells it apart from the flag registered for the id at that moment, which
\* is still alive, and set is the flag's value
NewFlag(id) ==
  [arc |-> IF id \in DOMAIN cancellations THEN 1 - cancellations[id].arc ELSE 0,
   set |-> FALSE]

\* mutant: a reset keeps the flag that is already registered
RegisterFlagKeep(id) ==
  IF id \in DOMAIN cancellations THEN cancellations
  ELSE Put(cancellations, id, NewFlag(id))

\* init_request, the flag map after registering the freshly allocated flag
RegisterFlag(id) == Put(cancellations, id, NewFlag(id))

\* mutant: the handlers of the id are dropped when its request is initialised
DroppedHandlers(id) == Without(callbacks, {id})

\* init_request, the callback registry after the call: it is not touched
KeptHandlers(id) == callbacks

init_request(id) ==
  LET now == timestamp_now
      exists == id \in DOMAIN requests
      ok == ~exists \/ CanReset(requests[id].state)
  IN /\ IF ok
        THEN /\ requests' = IF exists
                            THEN [requests EXCEPT ![id] = ResetRecord(@, now)]
                            ELSE Put(requests, id, NewRecord(id, now))
             /\ cancellations' = RegisterFlag(id)
             /\ win' = [win EXCEPT ![id] = NoWindow]
        ELSE UNCHANGED <<requests, cancellations, win>>
     /\ lastOp' = Ret("init_request", id, ok, None, << >>)
     /\ callbacks' = KeptHandlers(id)
     /\ UNCHANGED <<clock, last_cleanup>>

\* set_callbacks: the three optional handlers, present or not
set_callbacks(id, hs) ==
  /\ callbacks' = Put(callbacks, id, hs)
  /\ win' = [win EXCEPT ![id] =
               WindowFrom(IF id \in DOMAIN requests THEN requests[id].body ELSE None)]
  /\ lastOp' = Ret("set_callbacks", id, TRUE, None, << >>)
  /\ UNCHANGED <<clock, requests, cancellations, last_cleanup>>

\* mutant: the chunk replaces the body
AppendBodyReplace(body, data) == Some(data)

\* handle_chunk, the body after the chunk
AppendBody(body, data) ==
  IF IsSome(body) THEN Some(Unwrap(body) \o data) ELSE Some(data)

\* handle_chunk, the record after the chunk
ChunkRecord(req, data, now) ==
  [req EXCEPT !.state = "Receiving", !.updated_at = now,
              !.body = AppendBody(req.body, data)]

\* mutant: the handler is called without looking for the record
ChunkHandlerCalledUnchecked(id) ==
  /\ id \in DOMAIN callbacks
  /\ callbacks[id].on_chunk

\* handle_chunk, whether the on_chunk handler is looked up and called
ChunkHandlerCalled(id) ==
  /\ id \in DOMAIN requests
  /\ id \in DOMAIN callbacks
  /\ callbacks[id].on_chunk

handle_chunk(id, data) ==
  LET exists == id \in DOMAIN requests
      called == ChunkHandlerCalled(id)
      calls == IF called THEN <<Call("on_chunk", data, None)>> ELSE << >>
  IN /\ exists =>
          Len(Unwrap(AppendBody(requests[id].body, data))) <= MaxBodyLen
     /\ IF exists
        THEN /\ requests' = [requests EXCEPT
                               ![id] = ChunkRecord(@, data, timestamp_now)]
             /\ win' = [win EXCEPT ![id].chunks = Append(@, data),
                                   ![id].calls = @ \o [i \in 1..Len(calls) |-> calls[i].text]]
        ELSE UNCHANGED <<requests, win>>
     /\ lastOp' = Ret("handle_chunk", id, called, None, calls)
     /\ UNCHANGED <<clock, callbacks, cancellations, last_cleanup>>

\* set_response, the record after it
ResponseRecord(req, status, headers, body, now) ==
  [req EXCEPT !.status = Some(status), !.headers = Some(headers),
              !.body = Some(body), !.updated_at = now]

set_response(id, status, headers, body) ==
  /\ IF id \in DOMAIN requests
     THEN /\ requests' = [requests EXCEPT
                            ![id] = ResponseRecord(@, status, headers, body, timestamp_now)]
          /\ win' = [win EXCEPT ![id] = WindowFrom(Some(body))]
     ELSE UNCHANGED <<requests, win>>
  /\ lastOp' = Ret("set_response", id, id \in DOMAIN requests, None, << >>)
  /\ UNCHANGED <<clock, callbacks, cancellations, last_cleanup>>

\* mutant: completing drops the accumulated body
CompletedRecordNoBody(req, now) ==
  [req EXCEPT !.state = "Complete", !.updated_at = now, !.body = None]

\* set_completed, the record after it
CompletedRecord(req, now) ==
  [req EXCEPT !.state = "Complete", !.updated_at = now]

set_completed(id) ==
  LET exists == id \in DOMAIN requests
      info == CompletedRecord(requests[id], timestamp_now)
      calls == IF exists /\ id \in DOMAIN callbacks /\ callbacks[id].on_complete
               THEN <<Call("on_complete", "", Some(info))>> ELSE << >>
  IN /\ IF exists
        THEN requests' = [requests EXCEPT ![id] = info]
        ELSE UNCHANGED requests
     /\ lastOp' = Ret("set_completed", id, exists, None, calls)
     /\ UNCHANGED <<clock, callbacks, cancellations, last_cleanup, win>>

\* set_error, the record after it
ErrorRecord(req, error, now) ==
  [req EXCEPT !.state = "Error", !.error = Some(error), !.updated_at = now]

set_error(id, error) ==
  LET exists == id \in DOMAIN requests
      calls == IF id \in DOMAIN callbacks /\ callbacks[id].on_error
               THEN <<Call("on_error", error, None)>> ELSE << >>
  IN /\ IF exists
        THEN requests' = [requests EXCEPT ![id] = ErrorRecord(@, error, timestamp_now)]
        ELSE UNCHANGED requests
     /\ lastOp' = Ret("set_error", id, exists, None, calls)
     /\ UNCHANGED <<clock, callbacks, cancellations, last_cleanup, win>>

\* mutant: an idle record is acknowledged too
CanAcknowledgeLoose(st) == st \in {"Complete", "Error", "Timeout", "Cancelled", "Idle"}

\* acknowledge_request, the states it accepts
CanAcknowledge(st) == st \in {"Complete", "Error", "Timeout", "Cancelled"}

\* acknowledge_request, the record after it
AcknowledgedRecord(req, now) ==
  [req EXCEPT !.state = "Acknowledged", !.updated_at = now]

acknowledge_request(id) ==
  LET ok == id \in DOMAIN requests /\ CanAcknowledge(requests[id].state)
  IN /\ IF ok
        THEN requests' = [requests EXCEPT ![id] = AcknowledgedRecord(@, timestamp_now)]
        ELSE UNCHANGED requests
     /\ lastOp' = Ret("acknowledge_request", id, ok, None, << >>)
     /\ UNCHANGED <<clock, callbacks, cancellations, last_cleanup, win>>

\* should_cancel
ShouldCancelNever(id) == FALSE

should_cancel(id) ==
  IF id \in DOMAIN cancellations THEN cancellations[id].set ELSE FALSE

\* cancel_request, the message it stores
CancelMessage == "Request was cancelled"

\* cancel_request, the record after it
CancelledRecord(req, now) ==
  [req EXCEPT !.state = "Cancelled", !.error = Some(CancelMessage), !.updated_at = now]

\* mutant: the record is marked but the flag is not set
CancelFlagsUnset(id) == cancellations

\* mutant: cancelling flips the flag, so a second cancel clears it
CancelFlagsToggle(id) ==
  IF id \in DOMAIN cancellations
  THEN [cancellations EXCEPT ![id].set = ~@]
  ELSE cancellations

\* cancel_request, the flags after it
CancelFlags(id) ==
  IF id \in DOMAIN cancellations
  THEN [cancellations EXCEPT ![id].set = TRUE]
  ELSE cancellations

cancel_request(id) ==
  /\ cancellations' = CancelFlags(id)
  /\ IF id \in DOMAIN requests
     THEN requests' = [requests EXCEPT ![id] = CancelledRecord(@, timestamp_now)]
     ELSE UNCHANGED requests
  /\ lastOp' = Ret("cancel_request", id, id \in DOMAIN requests, None, << >>)
  /\ UNCHANGED <<clock, callbacks, last_cleanup, win>>

(* ------------------------------ cleanup -------------------------------- *)

\* cleanup_idle_requests, the states it never forces to Idle
Settled(st) == st \in {"Complete", "Error", "Timeout", "Cancelled", "Idle", "Acknowledged"}

\* mutant: the idle test is off by one
IdleTooLongInclusive(req, now) == now - req.last_polled >= idle_timeout

\* cleanup_idle_requests, whether a record went unpolled past the idle timeout
IdleTooLong(req, now) == Exceeds(now, req.last_polled, idle_timeout)

\* mutant: an acknowledged record waits for the idle timeout like any other
ToRemoveWhenIdle(reqs, now) ==
  {id \in DOMAIN reqs : IdleTooLong(reqs[id], now) /\ Settled(reqs[id].state)}

\* cleanup_idle_requests, the ids collected in to_remove
ToRemove(reqs, now) ==
  {id \in DOMAIN reqs :
     \/ reqs[id].state = "Acknowledged"
     \/ IdleTooLong(reqs[id], now) /\ Settled(reqs[id].state)}

\* cleanup_idle_requests, the pass that marks idle requests
MarkIdle(reqs, now) ==
  [id \in DOMAIN reqs |->
     IF IdleTooLong(reqs[id], now) /\ ~Settled(reqs[id].state)
     THEN [reqs[id] EXCEPT !.state = "Idle", !.updated_at = now]
     ELSE reqs[id]]

\* try_cleanup, whether the pass is due and the slot is claimed
CleanupDue(now) == Exceeds(now, last_cleanup, cleanup_interval)

\* the three maps and last_cleanup after try_cleanup(now)
AfterCleanup(now) ==
  IF CleanupDue(now)
  THEN LET gone == ToRemove(requests, now)
       IN [requests |-> Without(MarkIdle(requests, now), gone),
           callbacks |-> Without(callbacks, gone),
           cancellations |-> Without(cancellations, gone),
           last_cleanup |-> now,
           gone |-> gone]
  ELSE [requests |-> requests, callbacks |-> callbacks,
        cancellations |-> cancellations, last_cleanup |-> last_cleanup,
        gone |-> {}]

(* ----------------------------- polling --------------------------------- *)

\* poll_request, the message of a poll-detected timeout
TimeoutMessage == "Request timed out"

\* poll_request, the timeout test
PollTimedOut(req, now) ==
  /\ req.state \in {"Sending", "Receiving"}
  /\ Exceeds(now, req.updated_at, PollTimeout)

\* poll_request, the record after the poll
PolledRecord(req, now) ==
  IF PollTimedOut(req, now)
  THEN [req EXCEPT !.last_polled = now, !.state = "Timeout",
                   !.error = Some(TimeoutMessage)]
  ELSE [req EXCEPT !.last_polled = now]

\* mutant: an unknown id is reported as a request that has not started
NotFoundInfoInit(id, now) ==
  [request_id |-> id, state |-> "Init", status |-> None, headers |-> None,
   body |-> None, error |-> None,
   last_polled |-> now, created_at |-> now, updated_at |-> now]

\* Session::get_response, the snapshot synthesized for an unknown id
NotFoundInfo(id, now) ==
  [request_id |-> id, state |-> "Error", status |-> None, headers |-> None,
   body |-> None, error |-> Some("Request '" \o id \o "' not found"),
   last_polled |-> now, created_at |-> now, updated_at |-> now]

\* Session::get_response over RequestManager::poll_request
get_response(id) ==
  LET now == timestamp_now
      after == AfterCleanup(now)
      found == id \in DOMAIN after.requests
      info == IF found THEN PolledRecord(after.requests[id], now)
              ELSE NotFoundInfo(id, now)
  IN /\ requests' = IF found THEN [after.requests EXCEPT ![id] = info]
                    ELSE after.requests
     /\ callbacks' = after.callbacks
     /\ cancellations' = after.cancellations
     /\ last_cleanup' = after.last_cleanup
     /\ win' = [x \in Ids |-> IF x \in after.gone THEN NoWindow ELSE win[x]]
     /\ lastOp' = Ret("get_response", id, found, Some(info), << >>)
     /\ UNCHANGED clock

(* --------------------------- specification ----------------------------- *)

\* no stream is open
NoStream == [pc |-> "idle", id |-> "", is_sse |-> FALSE, whole |-> << >>,
             pos |-> 0, reads |-> 0, buffer |-> << >>, accumulated_data |-> "",
             events |-> << >>]

\* the threads that call into one manager concurrently
Threads == {"t1", "t2"}

\* the three handlers of CallbackHandlers
Handlers == {"on_chunk", "on_complete", "on_error"}

\* a thread outside any call: op is the call it made last and ok, tok and saw
\* what that call returned and found; nest is the call its handler makes
NoThread == [op |-> "none", pc |-> "idle", nest |-> "none", want |-> "none",
             ok |-> FALSE, tok |-> None, saw |-> "none", now |-> 0]

\* nothing is locked: guard is the holder of the record's write guard, refs
\* counts each thread's references into the callbacks map, mutex gives the
\* holder of each handler's Mutex
NoLock == [guard |-> "free", refs |-> [t \in Threads |-> 0],
           mutex |-> [h \in Handlers |-> "free"]]

\* the threads that poll concurrently
Pollers == {"p1", "p2"}

\* a thread that is not polling: now is its clock sample, seen the value of
\* last_cleanup it loaded, to_remove the ids its pass collected
NoSweep == [pc |-> "idle", id |-> "", now |-> 0, seen |-> 0, to_remove |-> {}]

\* no poll is in progress
NoPoll == [pc |-> "idle", id |-> "", now |-> 0]

NoCall == [op |-> "none", id |-> "", ok |-> FALSE, at |-> 0, was |-> "absent",
           snap |-> None, calls |-> << >>]

Init ==
  /\ clock = 0
  /\ requests = EmptyMap
  /\ callbacks = EmptyMap
  /\ cancellations = EmptyMap
  /\ last_cleanup = 0
  /\ win = [id \in Ids |-> NoWindow]
  /\ lastOp = NoCall
  /\ host = [pc |-> 0, began |-> 0]
  /\ task = [id \in Ids |-> "none"]
  /\ poller = NoPoll
  /\ sessions = [sel |-> "A", held |-> EmptyMap]
  /\ sse = NoStream
  /\ sweep = [p \in Pollers |-> NoSweep]
  /\ thread = [t \in Threads |-> NoThread]
  /\ lock = NoLock

\* the wall clock advances between calls
Tick ==
  /\ \E t \in Times : t > clock /\ clock' = t
  /\ UNCHANGED <<requests, callbacks, cancellations, last_cleanup, win, lastOp, host, task, poller, sessions, sse, sweep, thread, lock>>

\* any thread calls any operation of the session, with any argument
InitRequest == \E id \in Ids : init_request(id) /\ UNCHANGED <<host, task, poller, sessions, sse, sweep, thread, lock>>
SetCallbacks == \E id \in Ids, hs \in HandlerSets : set_callbacks(id, hs) /\ UNCHANGED <<host, task, poller, sessions, sse, sweep, thread, lock>>
HandleChunk == \E id \in Ids, data \in Chunks : handle_chunk(id, data) /\ UNCHANGED <<host, task, poller, sessions, sse, sweep, thread, lock>>
SetResponse ==
  \E id \in Ids, st \in Statuses, hd \in HeaderMaps, b \in Bodies :
    set_response(id, st, hd, b) /\ UNCHANGED <<host, task, poller, sessions, sse, sweep, thread, lock>>
SetCompleted == \E id \in Ids : set_completed(id) /\ UNCHANGED <<host, task, poller, sessions, sse, sweep, thread, lock>>
SetError == \E id \in Ids, e \in Errors : set_error(id, e) /\ UNCHANGED <<host, task, poller, sessions, sse, sweep, thread, lock>>
Acknowledge == \E id \in Ids : acknowledge_request(id) /\ UNCHANGED <<host, task, poller, sessions, sse, sweep, thread, lock>>
Cancel == \E id \in Ids : cancel_request(id) /\ UNCHANGED <<host, task, poller, sessions, sse, sweep, thread, lock>>
Poll == \E id \in Ids : get_response(id) /\ UNCHANGED <<host, task, poller, sessions, sse, sweep, thread, lock>>

Next ==
  \/ Tick
  \/ InitRequest
  \/ SetCallbacks
  \/ HandleChunk
  \/ SetResponse
  \/ SetCompleted
  \/ SetError
  \/ Acknowledge
  \/ Cancel
  \/ Poll

Spec == Init /\ [][Next]_vars

(* ----------------------------- scripted host --------------------------- *)

\* the instants at which the scripted host calls, on and one step beyond the
\* manager's thresholds
HostTimes == {0, 30, 31, 301, 3600, 3601, 3902}

HostTick ==
  /\ \E t \in HostTimes : t > clock /\ clock' = t
  /\ UNCHANGED <<requests, callbacks, cancellations, last_cleanup, win, lastOp, host, task, poller, sessions, sse, sweep, thread, lock>>

\* the end-to-end scenario: one caller works through these calls on r1, in
\* this order, and nothing else touches r1
HostInit ==
  /\ host.pc = 0
  /\ init_request("r1")
  /\ host' = [pc |-> 1, began |-> timestamp_now]
  /\ UNCHANGED <<task, poller, sessions, sse, sweep, thread, lock>>
HostHeaders ==
  /\ host.pc = 1
  /\ set_response("r1", 200, [k \in {"content-type"} |-> "text/plain"], "")
  /\ host' = [host EXCEPT !.pc = 2]
  /\ UNCHANGED <<task, poller, sessions, sse, sweep, thread, lock>>
HostChunkHello ==
  host.pc = 2 /\ handle_chunk("r1", "hello") /\ host' = [host EXCEPT !.pc = 3]
  /\ UNCHANGED <<task, poller, sessions, sse, sweep, thread, lock>>
HostChunkWorld ==
  host.pc = 3 /\ handle_chunk("r1", " world") /\ host' = [host EXCEPT !.pc = 4]
  /\ UNCHANGED <<task, poller, sessions, sse, sweep, thread, lock>>
HostCompleted ==
  host.pc = 4 /\ set_completed("r1") /\ host' = [host EXCEPT !.pc = 5]
  /\ UNCHANGED <<task, poller, sessions, sse, sweep, thread, lock>>
HostPoll ==
  host.pc = 5 /\ get_response("r1") /\ host' = [host EXCEPT !.pc = 6]
  /\ UNCHANGED <<task, poller, sessions, sse, sweep, thread, lock>>

HostNext ==
  \/ HostTick
  \/ HostInit
  \/ HostHeaders
  \/ HostChunkHello
  \/ HostChunkWorld
  \/ HostCompleted
  \/ HostPoll

HostSpec == Init /\ [][HostNext]_vars

(* ------------------------- the request() task ------------------------- *)

\* lib.rs request(): the binding spawns a task on the runtime and returns the
\* request id; it touches no record
TaskSpawn ==
  /\ \E id \in Ids : task[id] = "none" /\ task' = [task EXCEPT ![id] = "spawned"]
  /\ UNCHANGED <<clock, requests, callbacks, cancellations, last_cleanup, win,
                 lastOp, host, poller, sessions, sse, sweep, thread, lock>>

\* execute_request returned Ok: it stored status, headers and the whole body
TaskResponded ==
  \E id \in Ids, st \in Statuses, hd \in HeaderMaps, b \in Bodies \cup Chunks :
    /\ task[id] = "spawned"
    /\ set_response(id, st, hd, b)
    /\ task' = [task EXCEPT ![id] = "finishing"]
    /\ UNCHANGED <<host, poller, sessions, sse, sweep, thread, lock>>

\* execute_request returned Err(e): the task calls set_error(id, e.to_string())
TaskFailed ==
  \E id \in Ids, e \in Errors :
    /\ task[id] = "spawned"
    /\ set_error(id, e)
    /\ task' = [task EXCEPT ![id] = "failed"]
    /\ UNCHANGED <<host, poller, sessions, sse, sweep, thread, lock>>

\* after either outcome the task calls set_completed(id)
TaskCompleted ==
  \E id \in Ids :
    /\ task[id] \in {"finishing", "failed"}
    /\ set_completed(id)
    /\ task' = [task EXCEPT ![id] = "none"]
    /\ UNCHANGED <<host, poller, sessions, sse, sweep, thread, lock>>

\* the host initialises, registers handlers, polls, cancels and acknowledges
\* while the task runs
TaskNext ==
  \/ Tick
  \/ InitRequest
  \/ SetCallbacks
  \/ Poll
  \/ Cancel
  \/ Acknowledge
  \/ TaskSpawn
  \/ TaskResponded
  \/ TaskFailed
  \/ TaskCompleted

TaskSpec == Init /\ [][TaskNext]_vars

(* ------------------------------- claims -------------------------------- *)

\* the snapshot the last poll returned
Polled == Unwrap(lastOp.snap)

\* the outcome the end-to-end scenario promises
ScenarioOutcome(info) ==
  /\ info.status = Some(200)
  /\ info.body = Some("hello world")
  /\ info.state = "Complete"
  /\ info.error = None

\* C1 as stated: after init_request, set_response(200, headers, ""), the chunks
\* "hello" and " world" and set_completed, with nothing else done to r1, the
\* next poll of r1 returns status 200, body "hello world", Complete, no error.
C1_AsStated == host.pc = 6 => ScenarioOutcome(Polled)

\* C1 as amended: the same, for a poll that comes at most idle_timeout seconds
\* after the init_request (a later poll may first reclaim the record).
C1_EndToEnd ==
  (host.pc = 6 /\ lastOp.at - host.began <= 3600) => ScenarioOutcome(Polled)

\* the scenario polled exactly idle_timeout seconds after it began
C1_Witness ==
  /\ host.pc = 6
  /\ lastOp.at - host.began = 3600
  /\ lastOp.ok
  /\ Polled.body = Some("hello world")

\* the flag registered for id, if any
Flag(id) == IF id \in DOMAIN cancellations THEN Some(cancellations[id]) ELSE None

\* C2: init_request on an id without a record succeeds and leaves a record in
\* Init with status, headers, body and error absent, all three timestamps
\* equal to the time of the call, and a registered flag that is false.
C2_FreshInit ==
  \A id \in Ids :
    (lastOp.op = "init_request" /\ lastOp.id = id /\ lastOp.was = "absent") =>
      /\ lastOp.ok
      /\ id \in DOMAIN requests
      /\ requests[id].state = "Init"
      /\ requests[id].status = None
      /\ requests[id].headers = None
      /\ requests[id].body = None
      /\ requests[id].error = None
      /\ requests[id].created_at = lastOp.at
      /\ requests[id].updated_at = lastOp.at
      /\ requests[id].last_polled = lastOp.at
      /\ id \in DOMAIN cancellations
      /\ cancellations[id].set = FALSE
      /\ ~should_cancel(id)

\* a record created after the clock advanced, for an id that has handlers
C2_Witness ==
  /\ lastOp.op = "init_request"
  /\ lastOp.was = "absent"
  /\ lastOp.at > 0
  /\ lastOp.id \in DOMAIN requests
  /\ lastOp.id \in DOMAIN callbacks

\* C3: init_request on a record in Init, Sending or Receiving returns an error
\* and leaves the record, the registered flag and the handlers as they were.
C3_ActiveInitRejected ==
  [][\A id \in Ids :
       (init_request(id) /\ id \in DOMAIN requests
          /\ requests[id].state \in ActiveStates) =>
         /\ ~lastOp'.ok
         /\ requests' = requests
         /\ Flag(id)' = Flag(id)
         /\ cancellations' = cancellations
         /\ callbacks' = callbacks]_vars

\* a rejected init_request on a record that is receiving, flag set, handlers on
C3_Witness ==
  /\ lastOp.op = "init_request"
  /\ ~lastOp.ok
  /\ lastOp.was = "Receiving"
  /\ should_cancel(lastOp.id)
  /\ lastOp.id \in DOMAIN callbacks

\* C4: init_request on a record in Complete, Error, Timeout or Cancelled
\* succeeds, sets the state to Init, clears status, headers, body and error
\* and registers a new flag, distinct from the previous one and false.
C4_TerminalInitResets ==
  [][\A id \in Ids :
       (init_request(id) /\ id \in DOMAIN requests
          /\ requests[id].state \in TerminalStates) =>
         /\ lastOp'.ok
         /\ requests'[id].state = "Init"
         /\ requests'[id].status = None
         /\ requests'[id].headers = None
         /\ requests'[id].body = None
         /\ requests'[id].error = None
         /\ Flag(id)' # None
         /\ Flag(id)' # Flag(id)
         /\ (id \in DOMAIN cancellations =>
               cancellations'[id].arc # cancellations[id].arc)
         /\ ~should_cancel(id)']_vars

\* a cancelled request with response data, reset for reuse
C4_Witness ==
  /\ lastOp.op = "init_request"
  /\ lastOp.ok
  /\ lastOp.was = "Cancelled"
  /\ requests[lastOp.id].state = "Init"
  /\ ~should_cancel(lastOp.id)

\* what cancel_request does to an existing record, with the message it stores
CancelEffect(id, message) ==
  (cancel_request(id) /\ id \in DOMAIN requests) =>
    /\ requests'[id].state = "Cancelled"
    /\ requests'[id].error = Some(message)
    /\ should_cancel(id)'
    /\ (lastOp.op = "cancel_request" /\ lastOp.id = id) =>
         /\ requests'[id].state = requests[id].state
         /\ requests'[id].error = requests[id].error
         /\ requests'[id].status = requests[id].status
         /\ requests'[id].headers = requests[id].headers
         /\ requests'[id].body = requests[id].body
         /\ Flag(id)' = Flag(id)

\* C5 as stated: cancel_request on an existing record sets the flag, the state
\* Cancelled and the error "cancelled"; a second call changes none of state,
\* error, status, headers, body and flag; should_cancel is true after either.
C5_AsStated == [][\A id \in Ids : CancelEffect(id, "cancelled")]_vars

\* C5 as amended: the same, with the error "Request was cancelled".
C5_CancelIdempotent == [][\A id \in Ids : CancelEffect(id, "Request was cancelled")]_vars

\* a second cancel in a row, later than the first, of a record with a body
C5_Witness ==
  /\ lastOp.op = "cancel_request"
  /\ lastOp.was = "Cancelled"
  /\ lastOp.id \in DOMAIN requests
  /\ requests[lastOp.id].updated_at > requests[lastOp.id].created_at
  /\ IsSome(requests[lastOp.id].body)
  /\ should_cancel(lastOp.id)

Kept(id) == id \in DOMAIN requests /\ id \in DOMAIN requests'

\* C6: no operation moves a record from one of Complete, Error, Timeout,
\* Cancelled directly to another of them.
C6_TerminalOutcomeFinal ==
  [][\A id \in Ids :
       (Kept(id) /\ requests[id].state \in TerminalStates
          /\ requests'[id].state \in TerminalStates) =>
         requests'[id].state = requests[id].state]_vars

\* C7: no operation puts a record that is in Complete, Error, Timeout or
\* Cancelled back into Sending or Receiving.
C7_TerminalNeverActive ==
  [][\A id \in Ids :
       (Kept(id) /\ requests[id].state \in TerminalStates) =>
         requests'[id].state \notin {"Sending", "Receiving"}]_vars

\* C8: in every reachable state, a record whose error is set is in none of
\* Init, Sending, Receiving, Complete.
C8_ErrorImpliesFailed ==
  \A id \in DOMAIN requests :
    IsSome(requests[id].error) =>
      requests[id].state \notin {"Init", "Sending", "Receiving", "Complete"}

RECURSIVE Concat(_)
Concat(chunks) ==
  IF chunks = << >> THEN "" ELSE Head(chunks) \o Concat(Tail(chunks))

\* C9: for chunks d1..dn delivered to a record with no set_response or
\* init_request in between, the body is the body before followed by d1..dn,
\* a registered on_chunk handler was called with d1..dn in that order, and
\* the state right after a chunk is Receiving.
C9_ChunksAppend ==
  \A id \in DOMAIN requests :
    /\ win[id].chunks # << >> =>
         /\ requests[id].body =
              Some((IF IsSome(win[id].base) THEN Unwrap(win[id].base) ELSE "")
                     \o Concat(win[id].chunks))
         /\ (id \in DOMAIN callbacks /\ callbacks[id].on_chunk) =>
              win[id].calls = win[id].chunks
    /\ (lastOp.op = "handle_chunk" /\ lastOp.id = id) =>
         requests[id].state = "Receiving"

\* two chunks on top of an earlier body, the handler called for both, with a
\* cancel in between
C9_Witness ==
  \E id \in DOMAIN requests :
    /\ win[id].chunks = <<"hello", " world">>
    /\ win[id].calls = <<"hello", " world">>
    /\ win[id].base = Some("")
    /\ IsSome(requests[id].error)
    /\ requests[id].state = "Receiving"

\* C10: handle_chunk returns true exactly when an on_chunk handler is
\* registered for the id and was called; for an id without a record it
\* returns false, calls nothing and creates no record; for a record without
\* an on_chunk handler it returns false.
C10_ChunkResult ==
  lastOp.op = "handle_chunk" =>
    LET id == lastOp.id
        registered == id \in DOMAIN callbacks /\ callbacks[id].on_chunk
        called == lastOp.calls # << >>
    IN /\ lastOp.ok <=> (registered /\ called)
       /\ called => lastOp.calls[1].h = "on_chunk"
       /\ lastOp.was = "absent" =>
            ~lastOp.ok /\ ~called /\ id \notin DOMAIN requests
       /\ (lastOp.was # "absent" /\ ~registered) => ~lastOp.ok
       /\ (lastOp.was # "absent" /\ registered) => lastOp.ok

\* a chunk for an id that has an on_chunk handler but no record
C10_Witness ==
  /\ lastOp.op = "handle_chunk"
  /\ lastOp.was = "absent"
  /\ lastOp.id \in DOMAIN callbacks
  /\ callbacks[lastOp.id].on_chunk

\* C11: set_completed on an existing record leaves status, headers and the
\* accumulated body as they were, sets the state to Complete, and calls a
\* registered on_complete handler exactly once, with a snapshot that carries
\* the accumulated body and the state Complete; without a handler it calls
\* nothing.
C11_CompletedKeepsBody ==
  [][\A id \in Ids :
       (set_completed(id) /\ id \in DOMAIN requests) =>
         /\ requests'[id].status = requests[id].status
         /\ requests'[id].headers = requests[id].headers
         /\ requests'[id].body = requests[id].body
         /\ requests'[id].state = "Complete"
         /\ IF id \in DOMAIN callbacks /\ callbacks[id].on_complete
            THEN /\ Len(lastOp'.calls) = 1
                 /\ lastOp'.calls[1].h = "on_complete"
                 /\ Unwrap(lastOp'.calls[1].info).body = requests[id].body
                 /\ Unwrap(lastOp'.calls[1].info).state = "Complete"
            ELSE lastOp'.calls = << >>]_vars

\* a receiving request with two chunks completed, its handler called once
C11_Witness ==
  /\ lastOp.op = "set_completed"
  /\ lastOp.was = "Receiving"
  /\ Len(lastOp.calls) = 1
  /\ Unwrap(lastOp.calls[1].info).body = Some("hello world")
  /\ requests[lastOp.id].body = Some("hello world")

\* C12: acknowledge_request returns true and sets the state Acknowledged
\* exactly when the record is in Complete, Error, Timeout or Cancelled; in
\* every other case it returns false and changes nothing; and no other
\* operation ever puts a record into Acknowledged.
C12_AcknowledgeOnlyTerminal ==
  [][\A id \in Ids :
       /\ acknowledge_request(id) =>
            LET terminal == id \in DOMAIN requests
                              /\ requests[id].state \in TerminalStates
            IN /\ lastOp'.ok <=> terminal
               /\ terminal => requests'[id].state = "Acknowledged"
               /\ ~terminal => /\ requests' = requests
                               /\ callbacks' = callbacks
                               /\ cancellations' = cancellations
       /\ (/\ id \in DOMAIN requests'
           /\ requests'[id].state = "Acknowledged"
           /\ ~(id \in DOMAIN requests /\ requests[id].state = "Acknowledged")) =>
            /\ lastOp'.op = "acknowledge_request"
            /\ id \in DOMAIN requests
            /\ requests[id].state \in TerminalStates]_vars

\* a request that a poll found timed out, then acknowledged
C12_Witness ==
  /\ lastOp.op = "acknowledge_request"
  /\ lastOp.ok
  /\ lastOp.was = "Timeout"
  /\ requests[lastOp.id].state = "Acknowledged"

RaceTimes == {0, 1, 32, 302, 303, 3904}

Running == poller.pc # "panicked"

RaceTick ==
  /\ \E t \in RaceTimes : t > clock /\ clock' = t
  /\ UNCHANGED <<requests, callbacks, cancellations, last_cleanup, win, lastOp,
                 host, task, poller, sessions, sse, sweep, thread, lock>>

RaceInit == Running /\ InitRequest
RaceChunk == Running /\ HandleChunk
RaceCompleted == Running /\ SetCompleted

\* poll_request: let now = Self::timestamp_now()
PollSample ==
  /\ poller.pc = "idle"
  /\ \E id \in Ids : poller' = [pc |-> "sampled", id |-> id, now |-> timestamp_now]
  /\ UNCHANGED <<clock, requests, callbacks, cancellations, last_cleanup, win,
                 lastOp, host, task, sessions, sse, sweep, thread, lock>>

\* what a poll that panicked returned: nothing
Panicked(id, now) ==
  [Ret("get_response", id, FALSE, None, << >>) EXCEPT !.op = "panic", !.at = now]

\* whether some subtraction of try_cleanup(now) overflows
CleanupOverflows(now) ==
  \/ Overflows(now, last_cleanup)
  \/ CleanupDue(now) /\ \E id \in DOMAIN requests : Overflows(now, requests[id].last_polled)

\* poll_request: self.try_cleanup(now), over read guards
PollCleanup ==
  /\ poller.pc = "sampled"
  /\ LET now == poller.now
         after == AfterCleanup(now)
     IN \/ /\ requests' = after.requests
           /\ callbacks' = after.callbacks
           /\ cancellations' = after.cancellations
           /\ last_cleanup' = after.last_cleanup
           /\ win' = [x \in Ids |-> IF x \in after.gone THEN NoWindow ELSE win[x]]
           /\ poller' = [poller EXCEPT !.pc = "cleaned"]
           /\ UNCHANGED lastOp
        \/ /\ CleanupOverflows(now)
           /\ last_cleanup' = IF Overflows(now, last_cleanup) THEN last_cleanup ELSE now
           /\ lastOp' = Panicked(poller.id, now)
           /\ poller' = NoPoll
           /\ UNCHANGED <<requests, callbacks, cancellations, win>>
  /\ UNCHANGED <<clock, host, task, sessions, sse, sweep, thread, lock>>

\* poll_request: the rest, under the record's write guard; a panic there
\* poisons the guard, and every later call on the record panics on unwrap()
PollRecord ==
  /\ poller.pc = "cleaned"
  /\ LET now == poller.now
         id == poller.id
         found == id \in DOMAIN requests
         info == IF found THEN PolledRecord(requests[id], now)
                 ELSE NotFoundInfo(id, timestamp_now)
     IN \/ /\ requests' = IF found THEN [requests EXCEPT ![id] = info] ELSE requests
           /\ lastOp' = [Ret("get_response", id, found, Some(info), << >>)
                           EXCEPT !.at = now]
           /\ poller' = NoPoll
        \/ /\ found
           /\ requests[id].state \in {"Sending", "Receiving"}
           /\ Overflows(now, requests[id].updated_at)
           /\ requests' = [requests EXCEPT ![id].last_polled = now]
           /\ lastOp' = Panicked(id, now)
           /\ poller' = [poller EXCEPT !.pc = "panicked"]
  /\ UNCHANGED <<clock, callbacks, cancellations, last_cleanup, win, host, task, sessions, sse, sweep, thread, lock>>

RaceNext ==
  \/ RaceTick
  \/ RaceInit
  \/ RaceChunk
  \/ RaceCompleted
  \/ PollSample
  \/ PollCleanup
  \/ PollRecord

RaceSpec == Init /\ [][RaceNext]_vars

\* C14: the poll of an existing record moves it to Timeout, with an error
\* message, exactly when it is in Sending or Receiving and more than 30
\* seconds passed between its updated_at and the time the poll sampled; a
\* record updated within the last 30 seconds is not timed out, also when an
\* executor updates it between the poll's clock sample and its taking the
\* record's guard; a record in any other state keeps its state; and the poll
\* does not fail.
C14_PollTimeout ==
  [][\A id \in Ids :
       (/\ poller.pc = "cleaned"
        /\ poller'.pc # "cleaned"
        /\ poller.id = id
        /\ id \in DOMAIN requests) =>
         LET req == requests[id]
             stale == /\ req.state \in {"Sending", "Receiving"}
                      /\ poller.now - req.updated_at > 30
         IN /\ poller'.pc = "idle"
            /\ lastOp'.op = "get_response"
            /\ stale => /\ requests'[id].state = "Timeout"
                        /\ IsSome(requests'[id].error)
            /\ ~stale => requests'[id].state = req.state
            /\ clock - req.updated_at <= 30 => requests'[id].state = req.state]_vars

\* C16: in every reachable state every record has updated_at >= created_at.
C16_UpdatedNotBeforeCreated ==
  \A id \in DOMAIN requests : requests[id].updated_at >= requests[id].created_at

\* C15: in a cleanup pass at time now, a record unpolled for more than
\* idle_timeout is set to Idle and kept when it is in Init, Sending or
\* Receiving, and removed, with its flag and handlers, when it is in Complete,
\* Error, Timeout, Cancelled or Idle; a record polled within idle_timeout and
\* not Acknowledged is left as it was; and the pass does not fail.
C15_CleanupPass ==
  [][(/\ poller.pc = "sampled"
      /\ poller'.pc # "sampled"
      /\ poller.now - last_cleanup > cleanup_interval) =>
       /\ lastOp'.op # "panic"
       /\ \A id \in DOMAIN requests :
            LET req == requests[id]
                idle == poller.now - req.last_polled > idle_timeout
            IN /\ (idle /\ req.state \in ActiveStates) =>
                    /\ id \in DOMAIN requests'
                    /\ requests'[id].state = "Idle"
                    /\ Flag(id)' = Flag(id)
               /\ (idle /\ req.state \in TerminalStates \cup {"Idle"}) =>
                    /\ id \notin DOMAIN requests'
                    /\ id \notin DOMAIN cancellations'
                    /\ id \notin DOMAIN callbacks'
               /\ (~idle /\ req.state # "Acknowledged") =>
                    /\ id \in DOMAIN requests'
                    /\ requests'[id] = req
                    /\ Flag(id)' = Flag(id)]_vars

\* C17: should_cancel(id) goes from true to false only in a successful
\* init_request(id), which registers a new flag, or when cleanup removes the
\* id; and a flag that is set stays set for as long as it is registered.
C17_FlagNeverCleared ==
  [][\A id \in Ids :
       /\ (should_cancel(id) /\ ~should_cancel(id)') =>
            \/ /\ init_request(id)
               /\ lastOp'.ok
               /\ cancellations'[id].arc # cancellations[id].arc
            \/ /\ lastOp'.op = "get_response"
               /\ id \notin DOMAIN requests'
               /\ id \notin DOMAIN cancellations'
       /\ (/\ id \in DOMAIN cancellations
           /\ id \in DOMAIN cancellations'
           /\ cancellations'[id].arc = cancellations[id].arc
           /\ cancellations[id].set) => cancellations'[id].set]_vars

\* a cancelled request removed by cleanup: its flag is gone
C17_Witness ==
  /\ lastOp.op = "get_response"
  /\ lastOp.was = "Cancelled"
  /\ ~lastOp.ok
  /\ ~should_cancel(lastOp.id)

(* ------------------------------ SESSIONS ------------------------------- *)

\* lib.rs keeps the sessions in a map; each Session owns its RequestManager.
\* The variables requests, callbacks, cancellations and last_cleanup are the
\* manager of the session the caller addresses, sessions.sel; the managers of
\* the other sessions are in sessions.held
SessionIds == {"A", "B"}

\* the instants of the two-session runs
PairTimes == {0, 3902}

\* the manager of the addressed session
Manager ==
  [requests |-> requests, callbacks |-> callbacks,
   cancellations |-> cancellations, last_cleanup |-> last_cleanup]

\* Session::new over RequestManager::new
NewManager ==
  [requests |-> EmptyMap, callbacks |-> EmptyMap,
   cancellations |-> EmptyMap, last_cleanup |-> timestamp_now]

Existing == {sessions.sel} \cup DOMAIN sessions.held

\* the manager of session s
ManagerOf(s) == IF s = sessions.sel THEN Manager ELSE sessions.held[s]

PairTick ==
  /\ \E t \in PairTimes : t > clock /\ clock' = t
  /\ UNCHANGED <<requests, callbacks, cancellations, last_cleanup, win, lastOp,
                 host, task, poller, sessions, sse, sweep, thread, lock>>

\* create_session: a new Session under a new id
CreateSession ==
  /\ \E s \in SessionIds \ Existing :
       sessions' = [sessions EXCEPT !.held = Put(@, s, NewManager)]
  /\ UNCHANGED <<clock, requests, callbacks, cancellations, last_cleanup, win,
                 lastOp, host, task, poller, sse, sweep, thread, lock>>

\* destroy_session, of a session other than the addressed one
DestroySession ==
  /\ \E s \in DOMAIN sessions.held :
       sessions' = [sessions EXCEPT !.held = Without(@, {s})]
  /\ UNCHANGED <<clock, requests, callbacks, cancellations, last_cleanup, win,
                 lastOp, host, task, poller, sse, sweep, thread, lock>>

\* mutant: the two ids lead to one shared manager
ShelveShared(s) == Put(Without(sessions.held, {s}), sessions.sel, sessions.held[s])

\* the other sessions once the caller addresses s: the manager it leaves stays
\* as it is
Shelve(s) == Put(Without(sessions.held, {s}), sessions.sel, Manager)

\* SESSIONS.get(&session_id): the caller turns to session s
UseSession ==
  /\ \E s \in DOMAIN sessions.held :
       /\ sessions' = [sel |-> s, held |-> Shelve(s)]
       /\ requests' = sessions.held[s].requests
       /\ callbacks' = sessions.held[s].callbacks
       /\ cancellations' = sessions.held[s].cancellations
       /\ last_cleanup' = sessions.held[s].last_cleanup
       /\ lastOp' = [NoCall EXCEPT !.op = "use_session", !.id = s, !.at = timestamp_now]
  /\ win' = [id \in Ids |-> NoWindow]
  /\ UNCHANGED <<clock, host, task, poller, sse, sweep, thread, lock>>

\* the first session is driven through every operation, the second one
\* through enough of them to hold a record of its own
OnFirst == sessions.sel = "A"

PairChunk ==
  /\ OnFirst
  /\ \E id \in Ids : handle_chunk(id, "hello")
  /\ UNCHANGED <<host, task, poller, sessions, sse, sweep, thread, lock>>
PairResponse ==
  /\ OnFirst
  /\ \E id \in Ids : set_response(id, 200, [k \in {"content-type"} |-> "text/plain"], "")
  /\ UNCHANGED <<host, task, poller, sessions, sse, sweep, thread, lock>>
PairCallbacks ==
  /\ OnFirst
  /\ \E id \in Ids :
       set_callbacks(id, [on_chunk |-> TRUE, on_complete |-> TRUE, on_error |-> TRUE])
  /\ UNCHANGED <<host, task, poller, sessions, sse, sweep, thread, lock>>
PairCompleted == OnFirst /\ SetCompleted
PairError == OnFirst /\ SetError
PairPoll == OnFirst /\ Poll

PairNext ==
  \/ PairTick
  \/ CreateSession
  \/ DestroySession
  \/ UseSession
  \/ InitRequest
  \/ Cancel
  \/ PairChunk
  \/ PairResponse
  \/ PairCallbacks
  \/ PairCompleted
  \/ PairError
  \/ PairPoll

PairSpec == Init /\ [][PairNext]_vars

\* C18: an operation on one session leaves the records, flags, handlers and
\* cleanup time of every other session as they were, whichever operation it
\* is (a poll with its cleanup pass included), and turning to another session
\* changes no session.
C18_SessionsIsolated ==
  [][\A s \in SessionIds :
       (/\ s \in Existing
        /\ s \in Existing'
        /\ (s # sessions.sel \/ sessions'.sel # sessions.sel)) =>
         ManagerOf(s)' = ManagerOf(s)]_vars

\* both sessions hold a record for the same id, in different states, and the
\* addressed one was just cleaned up by a poll
C18_Witness ==
  /\ sessions.sel = "A"
  /\ "B" \in DOMAIN sessions.held
  /\ "r1" \in DOMAIN sessions.held["B"].requests
  /\ sessions.held["B"].requests["r1"].state = "Cancelled"
  /\ sessions.held["B"].last_cleanup = 0
  /\ lastOp.op = "get_response"
  /\ last_cleanup = 3902
  /\ "r1" \in DOMAIN requests
  /\ requests["r1"].state = "Idle"

(* ------------------- the stream executor, SSE branch ------------------- *)

\* longest tail of a byte stream after its fixed prefix, in bytes
MaxTail == 2

\* bytes are one-character strings, byte strings are sequences of them
NL == "\n"
Alphabet == {"d", "a", "t", ":", " ", "x", NL}
DataPrefix == <<"d", "a", "t", "a", ":">>
DataFoo == DataPrefix \o <<" ", "f", "o", "o">>

Tails == UNION {[1..n -> Alphabet] : n \in 0..MaxTail}

\* the byte streams a response delivers
StreamInputs ==
  {pre \o tail : pre \in {<< >>, <<NL>>, DataPrefix, DataFoo}, tail \in Tails}

\* the bodies a regular response delivers
PlainInputs == {<< >>, <<"x">>, <<"x", NL>>, <<"d", "a", "t">>}

EventStreamHeaders == [k \in {"content-type"} |-> "text/event-stream"]

\* the response headers: an event stream or a plain body
StreamHeaders == {EventStreamHeaders} \cup HeaderMaps

\* one pass of the loop body for a regular response: the chunk is one event
PlainChunk(chunk) == [events |-> <<chunk>>, buffer |-> << >>, panicked |-> FALSE]

\* buffer[a..b], zero-based and half-open as in the source
Slice(buffer, a, b) == SubSeq(buffer, a + 1, b)

\* str::trim over the bytes that occur here
IsSpace(c) == c \in {" ", NL}

RECURSIVE TrimStart(_)
TrimStart(line) ==
  IF line # << >> /\ IsSpace(Head(line)) THEN TrimStart(Tail(line)) ELSE line

RECURSIVE TrimEnd(_)
TrimEnd(line) ==
  IF line # << >> /\ IsSpace(line[Len(line)])
  THEN TrimEnd(SubSeq(line, 1, Len(line) - 1)) ELSE line

Trim(line) == TrimEnd(TrimStart(line))

\* line.starts_with("data:")
StartsWithData(line) == Len(line) >= 5 /\ SubSeq(line, 1, 5) = DataPrefix

\* the loop `for i in 0..buffer.len()`, from index i on: the events handed to
\* handle_stream_event, the final start_idx, and whether a slice with
\* start_idx > i made the task panic
RECURSIVE Scan(_, _, _, _)
Scan(buffer, i, start_idx, events) ==
  IF i >= Len(buffer)
  THEN [events |-> events, start_idx |-> start_idx, panicked |-> FALSE]
  ELSE IF i + 1 < Len(buffer) /\ buffer[i + 1] = NL /\ buffer[i + 2] = NL
  THEN IF start_idx > i
       THEN [events |-> events, start_idx |-> start_idx, panicked |-> TRUE]
       ELSE Scan(buffer, i + 1, i + 2, Append(events, Slice(buffer, start_idx, i)))
  ELSE IF buffer[i + 1] = NL /\ start_idx < i
  THEN LET line == Trim(Slice(buffer, start_idx, i))
       IN Scan(buffer, i + 1, i + 1,
               IF StartsWithData(line)
               THEN Append(events, Trim(SubSeq(line, 6, Len(line))))
               ELSE events)
  ELSE Scan(buffer, i + 1, start_idx, events)

\* one pass of the body of `while let Some(chunk_result)`, SSE branch: the
\* events it delivers and the bytes it keeps
ReadChunk(buffer, chunk) ==
  LET all == buffer \o chunk
      r == Scan(all, 0, 0, << >>)
  IN [events |-> r.events,
      buffer |-> IF r.start_idx < Len(all) THEN Slice(all, r.start_idx, Len(all))
                 ELSE << >>,
      panicked |-> r.panicked]

\* the text of an event
RECURSIVE Text(_)
Text(bytes) == IF bytes = << >> THEN "" ELSE Head(bytes) \o Text(Tail(bytes))

\* handle_stream_event for each event in turn
RECURSIVE Delivered(_, _, _)
Delivered(req, events, now) ==
  IF events = << >> THEN req
  ELSE Delivered(ChunkRecord(req, Text(Head(events)), now), Tail(events), now)

\* send_stream_request up to the loop: the response arrived, its status and
\* headers are stored with an empty body
SseOpen ==
  /\ sse.pc = "idle"
  /\ \E id \in Ids, hd \in StreamHeaders :
     \E stream \in IF hd = EventStreamHeaders THEN StreamInputs ELSE PlainInputs :
       /\ set_response(id, 200, hd, "")
       /\ sse' = [NoStream EXCEPT !.pc = "streaming", !.id = id, !.whole = stream,
                                  !.is_sse = hd = EventStreamHeaders]
  /\ UNCHANGED <<host, task, poller, sessions, sweep, thread, lock>>

\* a chunk arrives and the request was cancelled: return Err(Cancelled)
SseCancelled ==
  /\ sse.pc = "streaming"
  /\ sse.pos < Len(sse.whole)
  /\ should_cancel(sse.id)
  /\ sse' = [sse EXCEPT !.pc = "cancelled"]
  /\ UNCHANGED <<clock, requests, callbacks, cancellations, last_cleanup, win,
                 lastOp, host, task, poller, sessions, sweep, thread, lock>>

\* a chunk of k bytes arrives and is decoded
SseRead ==
  /\ sse.pc = "streaming"
  /\ ~should_cancel(sse.id)
  /\ \E k \in 1..(Len(sse.whole) - sse.pos) :
       LET id == sse.id
           chunk == SubSeq(sse.whole, sse.pos + 1, sse.pos + k)
           r == IF sse.is_sse THEN ReadChunk(sse.buffer, chunk) ELSE PlainChunk(chunk)
           texts == [j \in 1..Len(r.events) |-> Text(r.events[j])]
           called == ChunkHandlerCalled(id)
           calls == IF called
                    THEN [j \in 1..Len(texts) |-> Call("on_chunk", texts[j], None)]
                    ELSE << >>
       IN /\ sse' = [sse EXCEPT !.pc = IF r.panicked THEN "panicked" ELSE "streaming",
                                !.pos = @ + k, !.reads = @ + 1,
                                !.buffer = r.buffer, !.events = @ \o r.events,
                                !.accumulated_data =
                                   IF sse.is_sse THEN @ ELSE @ \o Text(chunk)]
          /\ IF id \in DOMAIN requests /\ texts # << >>
             THEN /\ requests' = [requests EXCEPT
                                    ![id] = Delivered(@, r.events, timestamp_now)]
                  /\ win' = [win EXCEPT ![id].chunks = @ \o texts,
                                        ![id].calls = IF called THEN @ \o texts ELSE @]
             ELSE UNCHANGED <<requests, win>>
          /\ lastOp' = Ret("handle_chunk", id, called /\ texts # << >>, None, calls)
  /\ UNCHANGED <<clock, callbacks, cancellations, last_cleanup, host, task,
                 poller, sessions, sweep, thread, lock>>

\* the stream ended: set_response with the accumulated data, which only the
\* regular branch fills, then set_completed
SseFinish ==
  /\ sse.pc = "streaming"
  /\ sse.pos = Len(sse.whole)
  /\ LET id == sse.id
         exists == id \in DOMAIN requests
         info == CompletedRecord(
                   ResponseRecord(requests[id], 200,
                                  IF sse.is_sse THEN EventStreamHeaders
                                  ELSE CHOOSE hd \in HeaderMaps : TRUE,
                                  sse.accumulated_data, timestamp_now),
                   timestamp_now)
         calls == IF exists /\ id \in DOMAIN callbacks /\ callbacks[id].on_complete
                  THEN <<Call("on_complete", "", Some(info))>> ELSE << >>
     IN /\ IF exists
           THEN /\ requests' = [requests EXCEPT ![id] = info]
                /\ win' = [win EXCEPT ![id] = WindowFrom(Some(sse.accumulated_data))]
           ELSE UNCHANGED <<requests, win>>
        /\ lastOp' = Ret("set_completed", id, exists, None, calls)
  /\ sse' = [sse EXCEPT !.pc = "done"]
  /\ UNCHANGED <<clock, callbacks, cancellations, last_cleanup, host, task,
                 poller, sessions, sweep, thread, lock>>

SseNext ==
  \/ InitRequest
  \/ Cancel
  \/ SseOpen
  \/ SseCancelled
  \/ SseRead
  \/ SseFinish

SseSpec == Init /\ [][SseNext]_vars

\* the executor has read the whole of an event stream
StreamRead == sse.pc # "idle" /\ sse.is_sse /\ sse.pos = Len(sse.whole)

\* C19: when the whole stream is "data: foo\n\n" and arrives in one read, the
\* executor delivers exactly one event, with the text "foo".
C19_DataFooOneEvent ==
  (StreamRead /\ sse.whole = DataFoo \o <<NL, NL>> /\ sse.reads = 1) =>
    /\ sse.pc # "panicked"
    /\ sse.events = << <<"f", "o", "o">> >>

\* C20: however the stream is cut into reads, once it is read the events
\* delivered are those of a single read of the whole stream, and the bytes
\* kept in the buffer are the same, so none is lost or delivered twice.
C20_SplitIndependent ==
  StreamRead =>
    LET one == ReadChunk(<< >>, sse.whole)
    IN /\ sse.events = one.events
       /\ sse.buffer = one.buffer
       /\ (sse.pc = "panicked") = one.panicked

\* C25: set_response, set_completed, set_error and cancel_request on an id
\* that has no record change no record, flag or handler entry and call no
\* handler, also when handlers are registered for the id.
C25_UnknownIdNoOp ==
  [][\A id \in Ids :
       (/\ id \notin DOMAIN requests
        /\ \/ \E st \in Statuses, hd \in HeaderMaps, b \in Bodies :
                set_response(id, st, hd, b)
           \/ set_completed(id)
           \/ \E e \in Errors : set_error(id, e)
           \/ cancel_request(id)) =>
         /\ requests' = requests
         /\ cancellations' = cancellations
         /\ callbacks' = callbacks
         /\ lastOp'.calls = << >>]_vars

\* C29: in every state between operations, every id that has a flag or a
\* handler entry also has a record.
C29_MapsKeyedTogether ==
  /\ DOMAIN cancellations \subseteq DOMAIN requests
  /\ DOMAIN callbacks \subseteq DOMAIN requests

\* C30: a cleanup pass removes every record that is in Acknowledged, with its
\* flag and its handlers, however recently it was polled.
C30_AcknowledgedReclaimed ==
  [][\A p \in Ids :
       (get_response(p) /\ CleanupDue(timestamp_now)) =>
         \A id \in DOMAIN requests :
           requests[id].state = "Acknowledged" =>
             /\ id \notin DOMAIN requests'
             /\ id \notin DOMAIN cancellations'
             /\ id \notin DOMAIN callbacks'
             /\ id = p => ~lastOp'.ok]_vars

\* an acknowledged record with handlers, polled 301 seconds before the pass
\* that removed it
C30_Witness ==
  /\ lastOp.op = "get_response"
  /\ lastOp.was = "Acknowledged"
  /\ ~lastOp.ok
  /\ lastOp.at = 301
  /\ last_cleanup = 301
  /\ lastOp.id \notin DOMAIN requests
  /\ lastOp.id \notin DOMAIN callbacks

\* C23: once the task of a request has reported a failure with set_error, it
\* does not call set_completed, and its record is not left Complete.
C23_NoCompletedAfterError ==
  [][\A id \in Ids :
       (task[id] = "failed" /\ task'[id] # "failed") =>
         /\ lastOp'.op # "set_completed"
         /\ id \in DOMAIN requests' => requests'[id].state # "Complete"]_vars

(* --------------------------- the host binding -------------------------- *)

\* what the Lua module lets the host do to one session: request (and get,
\* post, put, delete, head, patch over it), get_status and cancel_request
BindingNext ==
  \/ Tick
  \/ TaskSpawn
  \/ TaskResponded
  \/ TaskFailed
  \/ TaskCompleted
  \/ Poll
  \/ Cancel

BindingSpec == Init /\ [][BindingNext]_vars

\* C26: a request started through the binding has a record and a flag from
\* the moment request() returns, so that every write of its task finds the
\* record, and a poll after the task has finished does not report not-found.
C26_RequestAllocated ==
  [][\A id \in Ids :
       /\ (task[id] = "none" /\ task'[id] = "spawned") =>
            /\ id \in DOMAIN requests'
            /\ id \in DOMAIN cancellations'
       /\ (task[id] \in {"spawned", "finishing", "failed"} /\ task'[id] # task[id]) =>
            /\ id \in DOMAIN requests
            /\ lastOp'.ok]_vars

\* the texts the executor handed to handle_stream_event, one after the other
RECURSIVE AllText(_)
AllText(events) ==
  IF events = << >> THEN "" ELSE Text(Head(events)) \o AllText(Tail(events))

\* C21: when the stream is exhausted without cancellation, for a record that
\* received the response and every text of the exchange, the record is left
\* Complete with the concatenation of those texts as its body, for regular
\* and for event-stream responses.
C21_FinalBodyAccumulated ==
  [][\A id \in Ids :
       (/\ sse.pc = "streaming"
        /\ sse'.pc = "done"
        /\ sse.id = id
        /\ id \in DOMAIN requests
        /\ win[id].base = Some("")
        /\ Concat(win[id].chunks) = AllText(sse.events)) =>
         /\ requests'[id].state = "Complete"
         /\ requests'[id].body = Some(AllText(sse.events))]_vars

\* C22: when a chunk arrives while the flag of the request is set, the
\* executor does nothing with it but end the exchange as cancelled; an
\* exchange ends as cancelled only that way; and once it has, the executor
\* delivers nothing more, stores no final response and does not complete the
\* request.
C22_CancelStopsStream ==
  [][/\ (/\ sse.pc = "streaming"
         /\ sse.pos < Len(sse.whole)
         /\ sse.id \in DOMAIN cancellations
         /\ cancellations[sse.id].set
         /\ sse' # sse) =>
           /\ sse' = [sse EXCEPT !.pc = "cancelled"]
           /\ requests' = requests
           /\ lastOp' = lastOp
     /\ (sse.pc = "streaming" /\ sse'.pc = "cancelled") =>
           /\ sse.pos < Len(sse.whole)
           /\ sse.id \in DOMAIN cancellations
           /\ cancellations[sse.id].set
     /\ sse.pc = "cancelled" =>
           /\ sse' = sse
           /\ lastOp'.op \in {lastOp.op, "init_request", "cancel_request"}]_vars

\* an exchange cancelled mid-stream, after an event was delivered
C22_Witness ==
  /\ sse.pc = "cancelled"
  /\ sse.events # << >>
  /\ sse.pos < Len(sse.whole)
  /\ sse.id \in DOMAIN requests
  /\ requests[sse.id].state = "Cancelled"
  /\ requests[sse.id].body # Some("")

(* ------------- one request id driven by one streaming executor ---------- *)

\* the longest response this exchange carries, in bytes
MaxStreamLen == 3

\* the executor of the initialised request receives the response
StreamOpen ==
  /\ SseOpen
  /\ sse'.id \in DOMAIN requests
  /\ Len(sse'.whole) <= MaxStreamLen

StreamNext ==
  \/ Tick
  \/ InitRequest
  \/ StreamOpen
  \/ Cancel
  \/ Poll
  \/ SseCancelled
  \/ SseRead
  \/ SseFinish

StreamSpec == Init /\ [][StreamNext]_vars

HasBody(info) == info.body # None /\ info.body # Some("")

\* C24: for one request id driven by one streaming executor, no record and
\* no poll shows a non-empty body while the status is absent; a text is
\* delivered only to a record that already has its status; and after the
\* executor completed the request it writes nothing more to the record.
C24_WritesInIssueOrder ==
  [][/\ \A id \in DOMAIN requests' : HasBody(requests'[id]) => requests'[id].status # None
     /\ lastOp'.op = "get_response" /\ HasBody(Unwrap(lastOp'.snap)) =>
          Unwrap(lastOp'.snap).status # None
     /\ \A id \in DOMAIN requests :
          (id \in DOMAIN requests' /\ requests'[id].body # requests[id].body
             /\ lastOp'.op = "handle_chunk") => requests[id].status # None
     /\ sse.pc = "done" =>
          /\ sse' = sse
          /\ lastOp' # lastOp => lastOp'.op \in {"get_response", "cancel_request", "init_request"}]_vars

(* ------------------ concurrent polls and the cleanup pass --------------- *)

\* try_cleanup and cleanup_idle_requests are not critical sections: a thread
\* samples the clock, loads last_cleanup, claims the slot by compare_exchange,
\* collects to_remove, marks, and removes, and other threads run in between
SweepTimes == {0, 302, 3903}

SweepTick ==
  /\ \E t \in SweepTimes : t > clock /\ clock' = t
  /\ UNCHANGED <<requests, callbacks, cancellations, last_cleanup, win, lastOp,
                 host, task, poller, sessions, sse, sweep, thread, lock>>

\* the thread's call ended in a panic
SweepPanic(p) ==
  /\ sweep' = [sweep EXCEPT ![p] = NoSweep]
  /\ lastOp' = Panicked(sweep[p].id, sweep[p].now)

\* a pass is running on the thread: it claimed the slot and has not returned
InPass(p) == sweep[p].pc \in {"claimed", "collected", "marked"}

\* poll_request: let now = Self::timestamp_now()
SweepSample(p) ==
  /\ sweep[p].pc = "idle"
  /\ \E id \in Ids :
       sweep' = [sweep EXCEPT ![p] = [NoSweep EXCEPT !.pc = "sampled", !.id = id,
                                                     !.now = timestamp_now]]
  /\ UNCHANGED <<clock, requests, callbacks, cancellations, last_cleanup, win,
                 lastOp, host, task, poller, sessions, sse, thread, lock>>

\* try_cleanup: self.last_cleanup.load(Ordering::Relaxed)
SweepLoad(p) ==
  /\ sweep[p].pc = "sampled"
  /\ sweep' = [sweep EXCEPT ![p].pc = "loaded", ![p].seen = last_cleanup]
  /\ UNCHANGED <<clock, requests, callbacks, cancellations, last_cleanup, win,
                 lastOp, host, task, poller, sessions, sse, thread, lock>>

\* try_cleanup: the interval test on the loaded value and the compare_exchange
SweepClaim(p) ==
  /\ sweep[p].pc = "loaded"
  /\ LET now == sweep[p].now
         seen == sweep[p].seen
     IN \/ /\ Exceeds(now, seen, cleanup_interval)
           /\ last_cleanup = seen
           /\ last_cleanup' = now
           /\ sweep' = [sweep EXCEPT ![p].pc = "claimed"]
           /\ UNCHANGED lastOp
        \/ /\ ~(Exceeds(now, seen, cleanup_interval) /\ last_cleanup = seen)
           /\ sweep' = [sweep EXCEPT ![p].pc = "cleaned"]
           /\ UNCHANGED <<last_cleanup, lastOp>>
        \/ /\ Overflows(now, seen)
           /\ SweepPanic(p)
           /\ UNCHANGED last_cleanup
  /\ UNCHANGED <<clock, requests, callbacks, cancellations, win, host, task,
                 poller, sessions, sse, thread, lock>>

\* whether an idle test of the pass overflows on some record
SweepOverflows(now) == \E id \in DOMAIN requests : Overflows(now, requests[id].last_polled)

\* cleanup_idle_requests: the first pass, which collects to_remove
SweepCollect(p) ==
  /\ sweep[p].pc = "claimed"
  /\ \/ /\ sweep' = [sweep EXCEPT ![p].pc = "collected",
                                  ![p].to_remove = ToRemove(requests, sweep[p].now)]
        /\ UNCHANGED lastOp
     \/ /\ \E id \in DOMAIN requests :
             /\ requests[id].state # "Acknowledged"
             /\ Overflows(sweep[p].now, requests[id].last_polled)
        /\ SweepPanic(p)
  /\ UNCHANGED <<clock, requests, callbacks, cancellations, last_cleanup, win,
                 host, task, poller, sessions, sse, thread, lock>>

\* cleanup_idle_requests: the second pass, which marks idle requests
SweepMark(p) ==
  /\ sweep[p].pc = "collected"
  /\ \/ /\ requests' = MarkIdle(requests, sweep[p].now)
        /\ sweep' = [sweep EXCEPT ![p].pc = "marked"]
        /\ UNCHANGED lastOp
     \/ /\ SweepOverflows(sweep[p].now)
        /\ SweepPanic(p)
        /\ UNCHANGED requests
  /\ UNCHANGED <<clock, callbacks, cancellations, last_cleanup, win, host, task,
                 poller, sessions, sse, thread, lock>>

\* cleanup_idle_requests: the third pass, which removes what was collected
SweepRemove(p) ==
  /\ sweep[p].pc = "marked"
  /\ LET gone == sweep[p].to_remove
     IN /\ requests' = Without(requests, gone)
        /\ callbacks' = Without(callbacks, gone)
        /\ cancellations' = Without(cancellations, gone)
        /\ win' = [x \in Ids |-> IF x \in gone THEN NoWindow ELSE win[x]]
  /\ sweep' = [sweep EXCEPT ![p].pc = "cleaned"]
  /\ UNCHANGED <<clock, last_cleanup, lastOp, host, task, poller, sessions, sse, thread, lock>>

\* poll_request: the rest, under the record's write guard
SweepRecord(p) ==
  /\ sweep[p].pc = "cleaned"
  /\ LET now == sweep[p].now
         id == sweep[p].id
         found == id \in DOMAIN requests
         info == IF found THEN PolledRecord(requests[id], now)
                 ELSE NotFoundInfo(id, timestamp_now)
     IN \/ /\ requests' = IF found THEN [requests EXCEPT ![id] = info] ELSE requests
           /\ lastOp' = [Ret("get_response", id, found, Some(info), << >>)
                           EXCEPT !.at = now]
        \/ /\ found
           /\ requests[id].state \in {"Sending", "Receiving"}
           /\ Overflows(now, requests[id].updated_at)
           /\ requests' = [requests EXCEPT ![id].last_polled = now]
           /\ lastOp' = Panicked(id, now)
  /\ sweep' = [sweep EXCEPT ![p] = NoSweep]
  /\ UNCHANGED <<clock, callbacks, cancellations, last_cleanup, win, host, task,
                 poller, sessions, sse, thread, lock>>

SweepNext ==
  \/ SweepTick
  \/ InitRequest
  \/ SetCompleted
  \/ \E p \in Pollers :
       \/ SweepSample(p)
       \/ SweepLoad(p)
       \/ SweepClaim(p)
       \/ SweepCollect(p)
       \/ SweepMark(p)
       \/ SweepRemove(p)
       \/ SweepRecord(p)

SweepSpec == Init /\ [][SweepNext]_vars

\* C27: every record the removal of a cleanup pass deletes is, at that
\* moment, Acknowledged, or terminal or Idle and unpolled for longer than the
\* idle timeout at the time of the pass; in particular a record that
\* init_request reset to Init after the pass collected it is not deleted.
C27_RemovedOnlyWhenSettled ==
  [][\A p \in Pollers :
       (sweep[p].pc = "marked" /\ sweep'[p].pc = "cleaned") =>
         \A id \in DOMAIN requests \ DOMAIN requests' :
           \/ requests[id].state = "Acknowledged"
           \/ /\ Settled(requests[id].state)
              /\ sweep[p].now - requests[id].last_polled > idle_timeout]_vars

\* C28: two cleanup passes never run at the same time; a thread claims the
\* slot only when its clock sample is more than the cleanup interval after the
\* value last_cleanup holds, so never with a sample older than the one the
\* last winner wrote, and last_cleanup never moves backwards.
C28_SingleWinner ==
  [][/\ \A p, q \in Pollers : (InPass(p)' /\ InPass(q)') => p = q
     /\ \A p \in Pollers :
          (~InPass(p) /\ InPass(p)') =>
             sweep[p].now - last_cleanup > cleanup_interval
     /\ last_cleanup' >= last_cleanup]_vars

(* ------------------- the state machine of one request ------------------- *)

\* C33: a record enters Sending only from Init and enters Receiving only from
\* Sending or Receiving, so that a record that receives response data has
\* passed through Sending before its first Receiving.
C33_SendingBeforeReceiving ==
  [][\A id \in DOMAIN requests \cap DOMAIN requests' :
       /\ (requests'[id].state = "Sending" /\ requests[id].state # "Sending") =>
            requests[id].state = "Init"
       /\ requests'[id].state = "Receiving" =>
            requests[id].state \in {"Sending", "Receiving"}]_vars

\* C37: init_request on an existing record succeeds exactly when the record
\* is in Complete, Error, Timeout, Cancelled or Idle; in Init, Sending,
\* Receiving and Acknowledged it fails and changes neither the record nor the
\* flag nor the handlers.
C37_ResetExactlyFromSettled ==
  [][\A id \in Ids :
       (init_request(id) /\ id \in DOMAIN requests) =>
         /\ lastOp'.ok <=>
              requests[id].state \in {"Complete", "Error", "Timeout", "Cancelled", "Idle"}
         /\ requests[id].state \in {"Init", "Sending", "Receiving", "Acknowledged"} =>
              /\ ~lastOp'.ok
              /\ requests' = requests
              /\ cancellations' = cancellations
              /\ callbacks' = callbacks
         /\ lastOp'.ok => requests'[id].state = "Init"]_vars

\* an acknowledged id was refused, its record still there
C37_Witness ==
  /\ lastOp.op = "init_request"
  /\ ~lastOp.ok
  /\ lastOp.was = "Acknowledged"
  /\ lastOp.id \in DOMAIN requests
  /\ requests[lastOp.id].state = "Acknowledged"

\* C39: init_request leaves the callback registry as it was, also when it
\* resets a terminal id; and the handlers handle_chunk, set_completed and
\* set_error invoke for the id are the registered ones.
C39_InitKeepsHandlers ==
  [][\A id \in Ids :
       /\ init_request(id) => callbacks' = callbacks
       /\ (\E data \in Chunks : handle_chunk(id, data)) =>
            (lastOp'.calls # << >> <=>
               /\ id \in DOMAIN requests
               /\ id \in DOMAIN callbacks
               /\ callbacks[id].on_chunk)
       /\ set_completed(id) =>
            (lastOp'.calls # << >> <=>
               /\ id \in DOMAIN requests
               /\ id \in DOMAIN callbacks
               /\ callbacks[id].on_complete)
       /\ (\E e \in Errors : set_error(id, e)) =>
            (lastOp'.calls # << >> <=>
               /\ id \in DOMAIN callbacks
               /\ callbacks[id].on_error)]_vars

\* a terminal id was reset while handlers of its previous use are registered
C39_Witness ==
  /\ lastOp.op = "init_request"
  /\ lastOp.ok
  /\ lastOp.was \in TerminalStates
  /\ lastOp.id \in DOMAIN callbacks
  /\ callbacks[lastOp.id].on_chunk
  /\ requests[lastOp.id].state = "Init"

\* C36: no elapsed-time subtraction underflows: when a poll is about to run
\* try_cleanup its clock sample is not before last_cleanup nor, if the pass
\* is due, before any record's last_polled; and when it is about to test the
\* timeout of a record in Sending or Receiving its sample is not before the
\* record's updated_at.
C36_NoUnderflow ==
  /\ poller.pc = "sampled" =>
       /\ poller.now >= last_cleanup
       /\ poller.now - last_cleanup > cleanup_interval =>
            \A id \in DOMAIN requests : poller.now >= requests[id].last_polled
  /\ (/\ poller.pc = "cleaned"
      /\ poller.id \in DOMAIN requests
      /\ requests[poller.id].state \in {"Sending", "Receiving"}) =>
       poller.now >= requests[poller.id].updated_at

(* --------------- an id reused while its executor still runs ------------- *)

\* the first use of r1: the host initialises it and may cancel it
ReuseFirst == host.pc = 0 /\ requests = EmptyMap /\ InitRequest
ReuseCancel == host.pc = 0 /\ Cancel

\* the host initialises r1 again while the executor of its first use is
\* still reading
ReuseInit ==
  /\ sse.pc = "streaming"
  /\ sse.id = "r1"
  /\ "r1" \in DOMAIN requests
  /\ CanReset(requests["r1"].state)
  /\ HostInit

\* the executor of the second use ends its exchange: set_response with the
\* accumulated body, then set_completed
ReuseFinish ==
  /\ host.pc = 4
  /\ LET id == "r1"
         exists == id \in DOMAIN requests
         info == CompletedRecord(
                   ResponseRecord(requests[id], 200, CHOOSE hd \in HeaderMaps : TRUE,
                                  "hello world", timestamp_now),
                   timestamp_now)
         calls == IF exists /\ id \in DOMAIN callbacks /\ callbacks[id].on_complete
                  THEN <<Call("on_complete", "", Some(info))>> ELSE << >>
     IN /\ IF exists
           THEN /\ requests' = [requests EXCEPT ![id] = info]
                /\ win' = [win EXCEPT ![id] = WindowFrom(Some("hello world"))]
           ELSE UNCHANGED <<requests, win>>
        /\ lastOp' = Ret("set_completed", id, exists, None, calls)
  /\ host' = [host EXCEPT !.pc = 5]
  /\ UNCHANGED <<clock, callbacks, cancellations, last_cleanup, task, poller,
                 sessions, sse, sweep, thread, lock>>

ReuseNext ==
  \/ ReuseFirst
  \/ ReuseCancel
  \/ StreamOpen
  \/ SseCancelled
  \/ SseRead
  \/ SseFinish
  \/ ReuseInit
  \/ HostHeaders
  \/ HostChunkHello
  \/ HostChunkWorld
  \/ ReuseFinish
  \/ Poll

ReuseSpec == Init /\ [][ReuseNext]_vars

\* what the executor of the second use produced
NewResult(info) ==
  /\ info.status = Some(200)
  /\ info.headers = Some(CHOOSE hd \in HeaderMaps : TRUE)
  /\ info.body = Some("hello world")

\* C32: once the executor of the second use has called set_completed, the
\* record, and every poll of it, shows the status, headers and body that
\* executor produced, whenever the executor of the first use performs its
\* remaining calls.
C32_StaleWritesDoNotSurvive ==
  host.pc = 5 =>
    /\ "r1" \in DOMAIN requests => NewResult(requests["r1"])
    /\ (lastOp.op = "get_response" /\ lastOp.ok) => NewResult(Polled)

(* -------------------- threads, guards and handlers ---------------------- *)

\* the calls below are followed lock by lock: the record's RwLock guard, the
\* reference callbacks.get() keeps into the callbacks map while the handler
\* runs, and the Mutex around each handler

LockId == CHOOSE id \in Ids : TRUE

\* the thread is back from its call
Returned(op, ok, tok, saw) ==
  [NoThread EXCEPT !.op = op, !.ok = ok, !.tok = tok, !.saw = saw]

\* init_request, the flag thread t allocated before looking for the record
ThreadFlag(t) == [arc |-> IF t = "t1" THEN 2 ELSE 3, set |-> FALSE]

\* init_request up to the test for an existing record: an existing record is
\* reset or refused under its write guard, with the reference into the map
\* held; without a record the thread goes on to create one, holding nothing
LInitCheck(t) ==
  /\ thread[t].pc = "idle"
  /\ LET id == LockId
     IN IF id \in DOMAIN requests
        THEN /\ lock.guard = "free"
             /\ init_request(id)
             /\ thread' = [thread EXCEPT ![t] =
                  Returned("init_request", CanReset(requests[id].state),
                           IF CanReset(requests[id].state)
                           THEN Some(NewFlag(id).arc) ELSE None,
                           requests[id].state)]
        ELSE /\ thread' = [thread EXCEPT ![t] =
                  [NoThread EXCEPT !.op = "init_request", !.pc = "create",
                                   !.saw = "absent", !.now = timestamp_now]]
             /\ UNCHANGED <<clock, requests, callbacks, cancellations,
                            last_cleanup, win, lastOp>>
  /\ UNCHANGED <<lock, host, task, poller, sessions, sse, sweep>>

\* init_request, else branch: self.requests.insert(..)
LInitInsert(t) ==
  /\ thread[t].pc = "create"
  /\ requests' = Put(requests, LockId, NewRecord(LockId, thread[t].now))
  /\ win' = [win EXCEPT ![LockId] = NoWindow]
  /\ thread' = [thread EXCEPT ![t].pc = "register"]
  /\ UNCHANGED <<clock, callbacks, cancellations, last_cleanup, lastOp, lock,
                 host, task, poller, sessions, sse, sweep>>

\* init_request, else branch: self.cancellations.insert(..) and Ok(cancel_flag)
LInitRegister(t) ==
  /\ thread[t].pc = "register"
  /\ cancellations' = Put(cancellations, LockId, ThreadFlag(t))
  /\ lastOp' = Ret("init_request", LockId, TRUE, None, << >>)
  /\ thread' = [thread EXCEPT ![t] =
       Returned("init_request", TRUE, Some(ThreadFlag(t).arc), "absent")]
  /\ UNCHANGED <<clock, requests, callbacks, last_cleanup, win, lock,
                 host, task, poller, sessions, sse, sweep>>

\* whether callbacks.insert can take the map's write lock
CallbacksWritable == \A u \in Threads : lock.refs[u] = 0

\* set_callbacks from outside any handler
LSetCallbacks(t) ==
  /\ thread[t].pc = "idle"
  /\ CallbacksWritable
  /\ \E hs \in HandlerSets : set_callbacks(LockId, hs)
  /\ thread' = [thread EXCEPT ![t] = Returned("set_callbacks", TRUE, None, "none")]
  /\ UNCHANGED <<lock, host, task, poller, sessions, sse, sweep>>

\* the calls that end by invoking a handler, and the handler of each
NotifyOps == {"handle_chunk", "set_completed", "set_error"}

HandlerOf(op) ==
  CASE op = "handle_chunk" -> "on_chunk"
    [] op = "set_completed" -> "on_complete"
    [] op = "set_error" -> "on_error"

\* what each call writes under the record's guard
Written(op, req, now) ==
  CASE op = "handle_chunk" -> ChunkRecord(req, "hello", now)
    [] op = "set_completed" -> CompletedRecord(req, now)
    [] op = "set_error" -> ErrorRecord(req, "boom", now)

\* whether the body stays within the bound after the call
FitsBody(op, req) ==
  op = "handle_chunk" => Len(Unwrap(AppendBody(req.body, "hello"))) <= MaxBodyLen

\* callbacks.get(request_id) found the handlers and the one wanted is Some
HandlerPresent(h) == LockId \in DOMAIN callbacks /\ callbacks[LockId][h]

\* mutant: the write guard lives until the end of the function
GuardKept(t) == t

\* the holder of the record's guard once the block that took it has ended
GuardAtBlockEnd(t) == "free"

\* handle_chunk, set_completed, set_error: the record is written under its
\* write guard; without a record the first two return, set_error goes on
LWrite(t) ==
  /\ thread[t].pc = "idle"
  /\ lock.guard = "free"
  /\ \E op \in NotifyOps :
       LET id == LockId
           exists == id \in DOMAIN requests
       IN /\ exists => FitsBody(op, requests[id])
          /\ IF exists
             THEN /\ requests' = [requests EXCEPT ![id] = Written(op, @, timestamp_now)]
                  /\ lock' = [lock EXCEPT !.guard = t]
                  /\ thread' = [thread EXCEPT ![t] =
                       [NoThread EXCEPT !.op = op, !.pc = "written"]]
             ELSE /\ thread' = [thread EXCEPT ![t] =
                       IF op = "set_error"
                       THEN [NoThread EXCEPT !.op = op, !.pc = "lookup"]
                       ELSE Returned(op, FALSE, None, "absent")]
                  /\ UNCHANGED <<requests, lock>>
          /\ lastOp' = Ret(op, id, exists, None, << >>)
  /\ UNCHANGED <<clock, callbacks, cancellations, last_cleanup, win,
                 host, task, poller, sessions, sse, sweep>>

\* the block that took the guard ends
LDrop(t) ==
  /\ thread[t].pc = "written"
  /\ lock' = [lock EXCEPT !.guard = GuardAtBlockEnd(t)]
  /\ thread' = [thread EXCEPT ![t].pc = "lookup"]
  /\ UNCHANGED <<clock, requests, callbacks, cancellations, last_cleanup, win,
                 lastOp, host, task, poller, sessions, sse, sweep>>

\* self.callbacks.get(request_id): the reference is kept while the handler
\* is looked at and run
LLookup(t) ==
  /\ thread[t].pc = "lookup"
  /\ IF HandlerPresent(HandlerOf(thread[t].op))
     THEN /\ lock' = [lock EXCEPT !.refs[t] = @ + 1]
          /\ thread' = [thread EXCEPT ![t].pc = "locking"]
     ELSE /\ thread' = [thread EXCEPT ![t] = Returned(thread[t].op, FALSE, None, "none")]
          /\ UNCHANGED lock
  /\ UNCHANGED <<clock, requests, callbacks, cancellations, last_cleanup, win,
                 lastOp, host, task, poller, sessions, sse, sweep>>

\* handler.lock() succeeded and the handler is entered
LLock(t) ==
  /\ thread[t].pc = "locking"
  /\ LET h == HandlerOf(thread[t].op)
     IN /\ lock.mutex[h] = "free"
        /\ lock' = [lock EXCEPT !.mutex[h] = t]
        /\ lastOp' = Ret(thread[t].op, LockId, TRUE, None, <<Call(h, "", None)>>)
  /\ thread' = [thread EXCEPT ![t].pc = "handler"]
  /\ UNCHANGED <<clock, requests, callbacks, cancellations, last_cleanup, win,
                 host, task, poller, sessions, sse, sweep>>

\* the handler returned: its mutex and the map reference are released
LReturn(t) ==
  /\ thread[t].pc = "handler"
  /\ thread[t].nest \in {"none", "done"}
  /\ lock' = [lock EXCEPT !.mutex[HandlerOf(thread[t].op)] = "free",
                          !.refs[t] = @ - 1]
  /\ thread' = [thread EXCEPT ![t] = Returned(thread[t].op, TRUE, None, "none")]
  /\ UNCHANGED <<clock, requests, callbacks, cancellations, last_cleanup, win,
                 lastOp, host, task, poller, sessions, sse, sweep>>

\* the handler calls set_callbacks for its own id: callbacks.insert needs the
\* write lock of the map
LNestSetCallbacks(t) ==
  /\ thread[t].pc = "handler"
  /\ thread[t].nest = "none"
  /\ IF CallbacksWritable
     THEN /\ \E hs \in HandlerSets : set_callbacks(LockId, hs)
          /\ thread' = [thread EXCEPT ![t].nest = "done"]
     ELSE /\ thread' = [thread EXCEPT ![t].nest = "set_callbacks",
                                      ![t].want = "callbacks"]
          /\ UNCHANGED <<clock, requests, callbacks, cancellations,
                         last_cleanup, win, lastOp>>
  /\ UNCHANGED <<lock, host, task, poller, sessions, sse, sweep>>

\* the handler calls handle_chunk or set_error for its own id: the record is
\* written, and the handler of that call is run if its mutex can be locked
LNestNotify(t) ==
  /\ thread[t].pc = "handler"
  /\ thread[t].nest = "none"
  /\ lock.guard = "free"
  /\ \E op \in {"handle_chunk", "set_error"} :
       LET id == LockId
           exists == id \in DOMAIN requests
           h == HandlerOf(op)
           runs == (exists \/ op = "set_error") /\ HandlerPresent(h)
       IN /\ exists => FitsBody(op, requests[id])
          /\ requests' = IF exists
                         THEN [requests EXCEPT ![id] = Written(op, @, timestamp_now)]
                         ELSE requests
          /\ thread' = [thread EXCEPT ![t] =
               IF runs /\ lock.mutex[h] # "free"
               THEN [@ EXCEPT !.nest = op, !.want = h]
               ELSE [@ EXCEPT !.nest = "done"]]
          /\ lastOp' = Ret(op, id, exists, None,
                           IF runs /\ lock.mutex[h] = "free"
                           THEN <<Call(h, "", None)>> ELSE << >>)
  /\ UNCHANGED <<clock, callbacks, cancellations, last_cleanup, win, lock,
                 host, task, poller, sessions, sse, sweep>>

\* the mutex the nested call waits for was released by another thread
LNestResume(t) ==
  /\ thread[t].pc = "handler"
  /\ thread[t].want \in Handlers
  /\ lock.mutex[thread[t].want] = "free"
  /\ thread' = [thread EXCEPT ![t].nest = "done", ![t].want = "none"]
  /\ lastOp' = Ret(thread[t].nest, LockId, TRUE, None,
                   <<Call(thread[t].want, "", None)>>)
  /\ UNCHANGED <<clock, requests, callbacks, cancellations, last_cleanup, win,
                 lock, host, task, poller, sessions, sse, sweep>>

\* the handler calls cancel_request or polls its own id
LNestCancel(t) ==
  /\ thread[t].pc = "handler"
  /\ thread[t].nest = "none"
  /\ lock.guard = "free"
  /\ cancel_request(LockId)
  /\ thread' = [thread EXCEPT ![t].nest = "done"]
  /\ UNCHANGED <<lock, host, task, poller, sessions, sse, sweep>>

LNestPoll(t) ==
  /\ thread[t].pc = "handler"
  /\ thread[t].nest = "none"
  /\ lock.guard = "free"
  /\ get_response(LockId)
  /\ thread' = [thread EXCEPT ![t].nest = "done"]
  /\ UNCHANGED <<lock, host, task, poller, sessions, sse, sweep>>

\* a poll or a cancel from outside any handler
LPoll(t) ==
  /\ thread[t].pc = "idle"
  /\ lock.guard = "free"
  /\ get_response(LockId)
  /\ thread' = [thread EXCEPT ![t] =
       Returned("poll_request", LockId \in DOMAIN requests, None, "none")]
  /\ UNCHANGED <<lock, host, task, poller, sessions, sse, sweep>>

LCancel(t) ==
  /\ thread[t].pc = "idle"
  /\ lock.guard = "free"
  /\ cancel_request(LockId)
  /\ thread' = [thread EXCEPT ![t] = Returned("cancel_request", TRUE, None, "none")]
  /\ UNCHANGED <<lock, host, task, poller, sessions, sse, sweep>>

LockNext ==
  \E t \in Threads :
    \/ LInitCheck(t)
    \/ LInitInsert(t)
    \/ LInitRegister(t)
    \/ LSetCallbacks(t)
    \/ LWrite(t)
    \/ LDrop(t)
    \/ LLookup(t)
    \/ LLock(t)
    \/ LReturn(t)
    \/ LNestSetCallbacks(t)
    \/ LNestNotify(t)
    \/ LNestResume(t)
    \/ LNestCancel(t)
    \/ LNestPoll(t)
    \/ LPoll(t)
    \/ LCancel(t)

LockSpec == Init /\ [][LockNext]_vars

\* the thread is inside a call made by its handler and cannot go on
Waiting(t) == thread[t].pc = "handler" /\ thread[t].want # "none"

\* C34: from the moment handle_chunk, set_completed or set_error looks for
\* the handler until the handler has returned, the thread does not hold the
\* record's write guard.
C34_GuardReleasedBeforeHandler ==
  \A t \in Threads :
    thread[t].pc \in {"lookup", "locking", "handler"} => lock.guard # t

\* one thread is inside a handler and the other polled the same id meanwhile
C34_Witness ==
  \E t, u \in Threads :
    /\ thread[t].pc = "handler"
    /\ thread[t].nest = "none"
    /\ thread[u].op = "poll_request"
    /\ thread[u].pc = "idle"
    /\ thread[u].ok
    /\ lastOp.op = "get_response"
    /\ lock.guard = "free"

\* C35: of two init_request calls that both found no record for the id, at
\* most one succeeds.
C35_InitAtomic ==
  \A t, u \in Threads :
    (/\ t # u
     /\ thread[t].op = "init_request" /\ thread[t].pc = "idle"
     /\ thread[u].op = "init_request" /\ thread[u].pc = "idle"
     /\ thread[t].saw = "absent" /\ thread[u].saw = "absent") =>
      ~(thread[t].ok /\ thread[u].ok)

\* C38: a call a handler makes for its own id on the same manager never
\* waits for the callbacks map while its own thread holds a reference into
\* it, nor for a handler mutex its own thread holds.
C38_ReentrantCallsReturn ==
  \A t \in Threads :
    Waiting(t) =>
      /\ thread[t].want = "callbacks" => lock.refs[t] = 0
      /\ thread[t].want \in Handlers => lock.mutex[thread[t].want] # t

(* ------------------- abandoned records and the sweep ------------------- *)

\* the instants of a session that is left alone after instant 1: a pass of
\* the sweep becomes due more than cleanup_interval after the previous one,
\* a record is idle more than idle_timeout after its last poll
LiveTimes == {0, 1, 302, 3602, 3903}

\* an id the host polls without ever having initialised it
DriverId == "r0"

\* no poll of a record is between two of its steps
LiveQuiet == poller.pc \in {"idle", "panicked"}

\* the record's RwLock is poisoned: a poll panicked while holding its write
\* guard, and read().unwrap() on it panics from then on
Poisoned(id) == poller.pc = "panicked" /\ poller.id = id /\ id \in DOMAIN requests

\* time advances to the next instant; once the record is left alone it
\* advances only after a poll has run try_cleanup at the current instant
LiveTick ==
  /\ \E t \in LiveTimes :
       /\ t > clock
       /\ \A u \in LiveTimes : u > clock => t <= u
       /\ clock' = t
  /\ \/ clock < 1
     \/ LiveQuiet /\ (clock = 1 \/ last_cleanup = clock)
  /\ UNCHANGED <<requests, callbacks, cancellations, last_cleanup, win, lastOp,
                 host, task, poller, sessions, sse, sweep, thread, lock>>

\* the host and the executor use the record up to instant 1
LiveInit == clock <= 1 /\ RaceInit
LiveChunk == clock <= 1 /\ RaceChunk
LiveCompleted == clock <= 1 /\ RaceCompleted
LiveError == clock <= 1 /\ Running /\ SetError
LiveAcknowledge == clock <= 1 /\ Running /\ Acknowledge
LiveSample == clock <= 1 /\ Running /\ PollSample

\* poll_request(DriverId): try_cleanup(now), then no record is found; a due
\* pass over a poisoned record panics in the collecting loop, after
\* last_cleanup was exchanged
LiveDriver ==
  /\ LET now == timestamp_now
         after == AfterCleanup(now)
     IN IF CleanupDue(now) /\ \E id \in DOMAIN requests : Poisoned(id)
        THEN /\ last_cleanup' = now
             /\ lastOp' = Panicked(DriverId, now)
             /\ UNCHANGED <<requests, callbacks, cancellations, win>>
        ELSE /\ requests' = after.requests
             /\ callbacks' = after.callbacks
             /\ cancellations' = after.cancellations
             /\ last_cleanup' = after.last_cleanup
             /\ win' = [x \in Ids |-> IF x \in after.gone THEN NoWindow ELSE win[x]]
             /\ lastOp' = [Ret("poll_request", DriverId, FALSE, None, << >>)
                             EXCEPT !.at = now]
  /\ UNCHANGED <<clock, host, task, poller, sessions, sse, sweep, thread, lock>>

LiveNext ==
  \/ LiveTick
  \/ LiveInit
  \/ LiveChunk
  \/ LiveCompleted
  \/ LiveError
  \/ LiveAcknowledge
  \/ LiveSample
  \/ PollCleanup
  \/ PollRecord
  \/ LiveDriver

\* polls of some id keep occurring and time advances
LiveSpec ==
  /\ Init
  /\ [][LiveNext]_vars
  /\ WF_vars(LiveTick)
  /\ WF_vars(LiveDriver)

\* C31: a record that is left alone (no poll, no executor write, no
\* init_request after instant 1) is eventually removed from the manager,
\* whatever state it was left in
C31_OrphanEventuallyRemoved ==
  (clock > 1 /\ "r1" \in DOMAIN requests) ~> ("r1" \notin DOMAIN requests)

====
